---- MODULE Spec2Model ----
(***************************************************************************)
(* A model of the cava-data job orchestrator:                              *)
(*   src/app/api/workers/data_fetcher.py  (determine_workers, fetch)       *)
(*   src/cava_data/api/endpoints/data.py  (request_data, cancel_job,       *)
(*                                         get_job)                        *)
(*                                                                         *)
(* The specifications share the variables:                                 *)
(*   SpecSizing  determine_workers as a pure function of its arguments     *)
(*   Spec        jobs executing fetch, with cancel_job and revocation      *)
(*   SpecPoll    jobs executing fetch, with get_job polling them           *)
(*   SpecDedup   request_data handlers racing on the dedup cache, with the *)
(*               cache TTL and the result backend's expiry                 *)
(*   SpecProtocol   one job's record with cancel_job and get_job served    *)
(*   SpecExpiry     submissions of one fingerprint while time passes       *)
(*   SpecRetention  one job's record expiring, observed through get_job    *)
(*   SpecMerge, SpecNulls, SpecRender   _merge_datasets, _nan_to_nulls and *)
(*               _plot_merged_dataset as functions of their arguments      *)
(*                                                                         *)
(* Byte counts are held in MiB, so the source's 1024 ** 3 is GiB == 1024.  *)
(* Python floats are held as exact fractions [n, d].                       *)
(* Time is counted in units of five minutes.                               *)
(***************************************************************************)
EXTENDS Integers, Sequences, FiniteSets, TLC

VARIABLES
    sizing,     \* SpecSizing: the call of determine_workers under test
    call,       \* the call of a merge or rendering function under test
    config,     \* environment: DATA_THRESHOLD, result_expires
    job,        \* job id -> the Celery task record and the worker's position
    pool,       \* job id -> cluster / client of that job's fetch
    revoked,    \* job id -> number of revocations issued by cancel_job
    cancel,     \* cancel_job: requests served and the last response
    poll,       \* get_job: requests served and the last response
    cache,      \* the dedup cache: key -> entry (with the time it has left)
    handler     \* request_data: each handler's position and locals

vars == <<sizing, call, config, job, pool, revoked, cancel, poll, cache, handler>>

----------------------------------------------------------------------------
(* Bounds of the model.                                                    *)

MaxHalfGiB == 24        \* SpecSizing: sizes 0, 0.5, ..., MaxHalfGiB / 2 GiB
MaxMemLimit == 3        \* SpecSizing: memory_limit in 1..MaxMemLimit
MaxCpuLimit == 2        \* SpecSizing: cpu_limit in 1..MaxCpuLimit

----------------------------------------------------------------------------
(* Exact fractions for the Python floats.                                  *)

Frac(n, d) == [n |-> n, d |-> d]
FracLess(a, b) == a.n * b.d < b.n * a.d
FracEq(a, b) == a.n * b.d = b.n * a.d
FracHalf(a) == Frac(a.n, 2 * a.d)

\* int(np.ceil(n / d)) for n >= 0, d > 0
Ceil(n, d) == (n + d - 1) \div d

----------------------------------------------------------------------------
(* determine_workers                                                        *)

default_memory_limit == 16
default_cpu_limit == 2

\* determine_workers without the second halving of the CPU request
determine_workers_no_discount(max_mem_size, memory_limit, cpu_limit) ==
    LET max_workers == Ceil(max_mem_size.n, max_mem_size.d * memory_limit)
        small == FracLess(max_mem_size, Frac(memory_limit, 1))
    IN  [min_workers |-> Ceil(max_workers, 10),
         max_workers |-> max_workers,
         memory_limit |-> memory_limit,
         memory_request |-> IF small THEN max_mem_size ELSE Frac(memory_limit, 2),
         cpu_limit |-> cpu_limit,
         cpu_request |-> Frac(cpu_limit, 2)]

\* max_mem_size is a fraction of GiB; memory_limit and cpu_limit are ints.
determine_workers(max_mem_size, memory_limit, cpu_limit) ==
    LET max_workers == Ceil(max_mem_size.n, max_mem_size.d * memory_limit)
        min_workers == Ceil(max_workers, 10)
        small == FracLess(max_mem_size, Frac(memory_limit, 1))
        k8s_mem == IF small THEN max_mem_size ELSE Frac(memory_limit, 2)
        k8s_cpu == IF small THEN FracHalf(Frac(cpu_limit, 2)) ELSE Frac(cpu_limit, 2)
    IN  [min_workers |-> min_workers,
         max_workers |-> max_workers,
         memory_limit |-> memory_limit,
         memory_request |-> k8s_mem,
         cpu_limit |-> cpu_limit,
         cpu_request |-> k8s_cpu]

NoPlan == [min_workers |-> 0, max_workers |-> 0, memory_limit |-> 0,
           memory_request |-> Frac(0, 1), cpu_limit |-> 0, cpu_request |-> Frac(0, 1)]

----------------------------------------------------------------------------
(* SpecSizing: determine_workers applied to every bounded input.           *)

\* no merge or rendering call is under test
NoCall == [pc |-> "idle"]

SizingIdle == [pc |-> "idle", max_mem_size |-> Frac(0, 1), memory_limit |-> 0,
               cpu_limit |-> 0, plan |-> NoPlan]

SizingInputs ==
    {[pc |-> "call", max_mem_size |-> Frac(k, 2), memory_limit |-> m,
      cpu_limit |-> c, plan |-> NoPlan] :
        k \in 0..MaxHalfGiB, m \in 1..MaxMemLimit, c \in 1..MaxCpuLimit}

CallDetermineWorkers ==
    /\ sizing.pc = "call"
    /\ sizing' = [sizing EXCEPT
            !.pc = "done",
            !.plan = determine_workers(sizing.max_mem_size, sizing.memory_limit,
                                       sizing.cpu_limit)]
    /\ UNCHANGED <<call, config, job, pool, revoked, cancel, poll, cache, handler>>

----------------------------------------------------------------------------
(* The world a job runs in.                                                *)

MaxJobs == 2            \* job ids 1..MaxJobs
MaxParams == 2          \* length of request_params
MaxTime == 1            \* start_dt, end_dt in 0..MaxTime (seconds)

JobIds == 1..MaxJobs
\* the ids a client asks about in Spec and SpecPoll: the job, and an id that
\* names no job
Uids == {1, MaxJobs}
DatasetIds == {"a", "b"}
GiB == 1024                       \* 1024 ** 3 bytes, in MiB
SizeChoices == {512, 30720}       \* total_size of a dataset, in MiB
\* what .sel(time=(start_dt, end_dt)).dataset gives: None (-1) or a dataset
\* with that many time samples
DataChoices == {-1, 0, 1}
Times == 0..MaxTime

default_data_threshold == 50
ThresholdChoices ==
    {[kind |-> "int", val |-> default_data_threshold],   \* DATA_THRESHOLD unset
     [kind |-> "str", val |-> 40]}                       \* DATA_THRESHOLD=40
\* result_expires, in units of five minutes: 5 and 10 minutes
RetentionChoices == {1, 2}

ParamSeqs == UNION {[1..n -> DatasetIds] : n \in 1..MaxParams}
Ids(p) == {p[i] : i \in DOMAIN p}

NoRequest == [request_params |-> <<>>, total_size |-> <<>>, data |-> <<>>,
              start_dt |-> 0, end_dt |-> 0]

\* requests whose selections are consistent with the window: an inverted
\* window selects no sample
FetchRequests ==
    UNION {
        {[request_params |-> p, total_size |-> ts, data |-> dl,
          start_dt |-> s, end_dt |-> e] :
            ts \in [Ids(p) -> SizeChoices],
            dl \in {f \in [Ids(p) -> DataChoices] :
                        s > e => \A d \in Ids(p) : f[d] <= 0}}
        : p \in ParamSeqs, s \in Times, e \in Times}

----------------------------------------------------------------------------
(* Progress messages (status_dict["msg"]) and the task record.             *)

Msg(kind, n, streams) == [kind |-> kind, n |-> n, streams |-> streams]

NoJob == [state |-> "NONE", pc |-> "none", request |-> NoRequest,
          progress |-> <<>>, result |-> "unset", called |-> {},
          key |-> "", expires |-> 0, purged |-> FALSE]

NoPool == [cluster |-> "None", client |-> "None", closes |-> 0,
           n_workers |-> 0, minimum |-> 0, maximum |-> 0,
           dask_spec |-> [min_workers |-> 1, max_workers |-> 2]]

Terminal == {"SUCCESS", "FAILURE", "REVOKED"}

\* self.update_state(state="PROGRESS", meta=status_dict): the backend stores
\* the record anew, which restarts its expiry (expires: the time left)
update_state(rec, msg) ==
    [rec EXCEPT !.state = "PROGRESS",
                !.progress = Append(@, msg),
                !.expires = config.result_expires]

RECURSIVE SumOver(_, _)
SumOver(f, S) ==
    IF S = {} THEN 0
    ELSE LET x == CHOOSE y \in S : TRUE IN f[x] + SumOver(f, S \ {x})

\* ds_list is a dict keyed by dataset id
max_data_size(r) == SumOver(r.total_size, Ids(r.request_params))
max_mem_size(r) == Frac(max_data_size(r), GiB)

\* max_mem_size > data_threshold: a float against the default int, or against
\* the str that os.environ.get returns when DATA_THRESHOLD is set
exceeds_threshold(m, t) ==
    IF t.kind = "str" THEN "TypeError"
    ELSE IF FracLess(Frac(t.val, 1), m) THEN "True" ELSE "False"

\* the keys of data_list in dict order (first occurrence in request_params)
RECURSIVE dict_keys(_)
dict_keys(p) ==
    IF p = <<>> THEN <<>>
    ELSE LET init == dict_keys(SubSeq(p, 1, Len(p) - 1))
             last == p[Len(p)]
         IN  IF last \in Ids(init) THEN init ELSE Append(init, last)

RECURSIVE FilterSeq(_, _)
FilterSeq(s, f) ==
    IF s = <<>> THEN <<>>
    ELSE IF f[Head(s)] = 0 THEN <<Head(s)>> \o FilterSeq(Tail(s), f)
         ELSE FilterSeq(Tail(s), f)

\* empty_streams that stops at the first empty stream
empty_streams_first(r) ==
    LET all == FilterSeq(dict_keys(r.request_params), r.data)
    IN  IF all = <<>> THEN <<>> ELSE <<Head(all)>>

\* empty_streams: the keys whose dataset has len(v.time) == 0
empty_streams(r) == FilterSeq(dict_keys(r.request_params), r.data)

\* da.arange(*t_range): the grid of _merge_datasets, its end excluded
new_time(start_dt, end_dt) == [i \in 1..(IF end_dt > start_dt THEN end_dt - start_dt ELSE 0) |-> start_dt + i - 1]

\* len(merged.time)
data_count(r) ==
    IF Cardinality(Ids(r.request_params)) > 1
    THEN Len(new_time(r.start_dt, r.end_dt))
    ELSE r.data[r.request_params[1]]

----------------------------------------------------------------------------
(* fetch, one action per step between two observable effects.  Every step  *)
(* belongs to the worker process of job j and touches job[j] and pool[j].  *)
(* job[j].pc is the step fetch is at; a task that has ended (state in      *)
(* Terminal) stays at the step where it ended.                             *)

Others == <<sizing, call, config, revoked, cancel, poll, cache, handler>>

At(j, pc) == job[j].pc = pc /\ job[j].state \in {"PENDING", "PROGRESS"}

\* line 271: the first update_state takes the task from PENDING to PROGRESS
fetch_start(j) ==
    /\ At(j, "queued")
    /\ job' = [job EXCEPT ![j] =
            [update_state(job[j], Msg("started", 0, <<>>)) EXCEPT !.pc = "resolve"]]
    /\ UNCHANGED <<pool, Others>>

\* lines 275-278: get_delayed_ds, then "N datasets requested."
fetch_resolve(j) ==
    /\ At(j, "resolve")
    /\ job' = [job EXCEPT ![j] =
            [update_state(job[j],
                Msg("datasets_requested", Len(job[j].request.request_params), <<>>))
             EXCEPT !.pc = "size"]]
    /\ UNCHANGED <<pool, Others>>

\* lines 280-313: the size, the threshold test, and for a large request the
\* sizing plan and "Setting up distributed computing cluster. Max data size"
fetch_size(j) ==
    /\ At(j, "size")
    /\ LET r == job[j].request
           m == max_mem_size(r)
           over == exceeds_threshold(m, config.data_threshold)
       IN  \/ /\ over = "TypeError"
              /\ job' = [job EXCEPT ![j].state = "FAILURE",
                                    ![j].result = "exception",
                                    ![j].expires = config.result_expires]
              /\ UNCHANGED pool
           \/ /\ over = "True"
              /\ pool' = [pool EXCEPT ![j].dask_spec =
                    determine_workers(m, default_memory_limit, default_cpu_limit)]
              /\ job' = [job EXCEPT ![j] =
                    [update_state(job[j], Msg("cluster_setup", max_data_size(r), <<>>))
                     EXCEPT !.pc = "cluster"]]
           \/ /\ over = "False"
              /\ job' = [job EXCEPT ![j].pc = "retrieve"]
              /\ UNCHANGED pool
    /\ UNCHANGED Others

\* lines 314-317: KubeCluster(pod_spec, n_workers=min_workers)
fetch_cluster(j) ==
    /\ At(j, "cluster")
    /\ pool' = [pool EXCEPT ![j].cluster = "created",
                            ![j].n_workers = pool[j].dask_spec.min_workers]
    /\ job' = [job EXCEPT ![j].pc = "adapt"]
    /\ UNCHANGED Others

\* fetch that attaches the client without asking the cluster to adapt
fetch_adapt_skipped(j) ==
    /\ At(j, "adapt")
    /\ job' = [job EXCEPT ![j].pc = "client"]
    /\ UNCHANGED <<pool, Others>>

\* lines 318-320: cluster.adapt(minimum=min_workers, maximum=max_workers)
fetch_adapt(j) ==
    /\ At(j, "adapt")
    /\ pool' = [pool EXCEPT ![j].cluster = "adapting",
                            ![j].minimum = pool[j].dask_spec.min_workers,
                            ![j].maximum = pool[j].dask_spec.max_workers]
    /\ job' = [job EXCEPT ![j].pc = "client"]
    /\ UNCHANGED Others

\* line 321: client = Client(cluster)
fetch_client(j) ==
    /\ At(j, "client")
    /\ pool' = [pool EXCEPT ![j].client = "open"]
    /\ job' = [job EXCEPT ![j].pc = "retrieve"]
    /\ UNCHANGED Others

\* fetch_retrieve announcing the validation before the retrieval
fetch_retrieve_swapped(j) ==
    /\ At(j, "retrieve")
    /\ job' = [job EXCEPT ![j] =
            [update_state(job[j], Msg("validating", 0, <<>>)) EXCEPT !.pc = "select"]]
    /\ UNCHANGED <<pool, Others>>

\* lines 328-329: "Retrieving data from zarr store ..."
fetch_retrieve(j) ==
    /\ At(j, "retrieve")
    /\ job' = [job EXCEPT ![j] =
            [update_state(job[j], Msg("retrieving", 0, <<>>)) EXCEPT !.pc = "select"]]
    /\ UNCHANGED <<pool, Others>>

\* lines 330-336: data_list is selected, then "Validating datasets..."
fetch_select(j) ==
    /\ At(j, "select")
    /\ job' = [job EXCEPT ![j] =
            [update_state(job[j], Msg("validating", 0, <<>>)) EXCEPT !.pc = "validate"]]
    /\ UNCHANGED <<pool, Others>>

\* fetch_validate without the test for empty streams
fetch_validate_none_only(j) ==
    /\ At(j, "validate")
    /\ LET r == job[j].request
           ids == Ids(r.request_params)
       IN  IF \E d \in ids : r.data[d] = -1
           THEN job' = [job EXCEPT ![j] =
                    [update_state(job[j], Msg("no_data", 0, <<>>))
                     EXCEPT !.pc = "cleanup", !.result = "None"]]
           ELSE job' = [job EXCEPT ![j] =
                    [update_state(job[j], Msg("to_be_processed", SumOver(r.data, ids), <<>>))
                     EXCEPT !.pc = "merge"]]
    /\ UNCHANGED <<pool, Others>>

\* lines 337-373: the three validation branches
fetch_validate(j) ==
    /\ At(j, "validate")
    /\ LET r == job[j].request
           ids == Ids(r.request_params)
       IN  IF \E d \in ids : r.data[d] = -1
           THEN job' = [job EXCEPT ![j] =
                    [update_state(job[j], Msg("no_data", 0, <<>>))
                     EXCEPT !.pc = "cleanup", !.result = "None"]]
           ELSE IF \E d \in ids : r.data[d] = 0
           THEN job' = [job EXCEPT ![j] =
                    [update_state(job[j], Msg("empty_streams", 0, empty_streams(r)))
                     EXCEPT !.pc = "not_possible"]]
           ELSE job' = [job EXCEPT ![j] =
                    [update_state(job[j], Msg("to_be_processed", SumOver(r.data, ids), <<>>))
                     EXCEPT !.pc = "merge"]]
    /\ UNCHANGED <<pool, Others>>

\* lines 355-363: "Plot creation is not possible with specified parameters."
fetch_not_possible(j) ==
    /\ At(j, "not_possible")
    /\ job' = [job EXCEPT ![j] =
            [update_state(job[j], Msg("plot_not_possible", 0, <<>>))
             EXCEPT !.pc = "cleanup", !.result = "None"]]
    /\ UNCHANGED <<pool, Others>>

\* lines 374-389: merge (two or more datasets) or pass-through, then the
\* sample count decides between "Merged dataset does not contain data." and
\* "Plotting merged datasets..."
fetch_merge(j) ==
    /\ At(j, "merge")
    /\ LET r == job[j].request
           multi == Cardinality(Ids(r.request_params)) > 1
           called == IF multi THEN job[j].called \cup {"_merge_datasets"}
                     ELSE job[j].called
       IN  IF data_count(r) = 0
           THEN job' = [job EXCEPT ![j] =
                    [update_state(job[j], Msg("merged_empty", 0, <<>>))
                     EXCEPT !.pc = "cleanup", !.result = "None", !.called = called]]
           ELSE job' = [job EXCEPT ![j] =
                    [update_state(job[j], Msg("plotting", 0, <<>>))
                     EXCEPT !.pc = "plot", !.called = called]]
    /\ UNCHANGED <<pool, Others>>

\* lines 390-415: _plot_merged_dataset and the result dict
fetch_plot(j) ==
    /\ At(j, "plot")
    /\ job' = [job EXCEPT ![j].pc = "cleanup", ![j].result = "dict",
                          ![j].called = @ \cup {"_plot_merged_dataset"}]
    /\ UNCHANGED <<pool, Others>>

\* lines 418-420: if client is not None: client.close()
fetch_close_client(j) ==
    /\ At(j, "cleanup")
    /\ pool' = [pool EXCEPT ![j].client =
                    IF pool[j].client = "None" THEN "None" ELSE "closed"]
    /\ job' = [job EXCEPT ![j].pc = "close_cluster"]
    /\ UNCHANGED Others

\* lines 422-423: if cluster is not None: cluster.close()
fetch_close_cluster(j) ==
    /\ At(j, "close_cluster")
    /\ pool' = [pool EXCEPT ![j] =
                    IF pool[j].cluster = "None" THEN pool[j]
                    ELSE [pool[j] EXCEPT !.cluster = "closed", !.closes = @ + 1]]
    /\ job' = [job EXCEPT ![j].pc = "return"]
    /\ UNCHANGED Others

\* line 424: return result; the task ends and its record becomes SUCCESS
fetch_return(j) ==
    /\ At(j, "return")
    /\ job' = [job EXCEPT ![j].state = "SUCCESS", ![j].pc = "returned",
                          ![j].expires = config.result_expires]
    /\ UNCHANGED <<pool, Others>>

\* the steps that call a collaborator which can raise: dataset resolution,
\* the provisioner (KubeCluster, adapt, Client), the selection, the merge,
\* the render, and the two close calls
RaisingSteps == {"resolve", "cluster", "adapt", "client", "select", "merge",
                 "plot", "cleanup", "close_cluster"}

\* fetch has no try/except/finally: an exception leaves fetch at once and
\* the task record becomes FAILURE; pc keeps the step that raised
fetch_raise(j) ==
    /\ job[j].pc \in RaisingSteps
    /\ job[j].state = "PROGRESS"
    /\ job[j].pc \in {"cleanup", "close_cluster"} =>
            \/ job[j].pc = "cleanup" /\ pool[j].client # "None"
            \/ job[j].pc = "close_cluster" /\ pool[j].cluster # "None"
    /\ job[j].pc = "merge" => Cardinality(Ids(job[j].request.request_params)) > 1
    /\ job' = [job EXCEPT ![j].state = "FAILURE",
                          ![j].result = "exception",
                          ![j].expires = config.result_expires]
    /\ UNCHANGED <<pool, Others>>

FetchStep(j) ==
    \/ fetch_start(j)
    \/ fetch_resolve(j)
    \/ fetch_size(j)
    \/ fetch_cluster(j)
    \/ fetch_adapt(j)
    \/ fetch_client(j)
    \/ fetch_retrieve(j)
    \/ fetch_select(j)
    \/ fetch_validate(j)
    \/ fetch_not_possible(j)
    \/ fetch_merge(j)
    \/ fetch_plot(j)
    \/ fetch_close_client(j)
    \/ fetch_close_cluster(j)
    \/ fetch_return(j)
    \/ fetch_raise(j)

----------------------------------------------------------------------------
(* cancel_job and the revocation it broadcasts.                            *)

MaxCancels == 1         \* cancel requests served

ValidSignals == {"SIGTERM", "SIGKILL", "SIGUSR1"}
Signals == ValidSignals \cup {"SIGHUP"}

\* cancel_job that revokes before it looks at the signal
cancel_job_unchecked(uid, signal) ==
    /\ cancel.count < MaxCancels
    /\ revoked' = [revoked EXCEPT ![uid] = @ + 1]
    /\ cancel' = [count |-> cancel.count + 1, uid |-> uid, signal |-> signal,
                  status_code |-> IF signal \in ValidSignals THEN 202 ELSE 500]
    /\ UNCHANGED <<sizing, call, config, job, pool, poll, cache, handler>>

\* lines 166-186: an unrecognized signal raises ValueError, which the handler
\* answers itself; otherwise one revoke(uid, terminate=True, signal=signal)
cancel_job(uid, signal) ==
    /\ cancel.count < MaxCancels
    /\ IF signal \notin ValidSignals
       THEN /\ cancel' = [count |-> cancel.count + 1, uid |-> uid,
                          signal |-> signal, status_code |-> 500]
            /\ UNCHANGED revoked
       ELSE /\ revoked' = [revoked EXCEPT ![uid] = @ + 1]
            /\ cancel' = [count |-> cancel.count + 1, uid |-> uid,
                          signal |-> signal, status_code |-> 202]
    /\ UNCHANGED <<sizing, call, config, job, pool, poll, cache, handler>>

\* a revocation that is applied to a task whatever its state
worker_revoke_any(j) ==
    /\ revoked[j] > 0
    /\ job[j].state \in {"PENDING", "PROGRESS", "SUCCESS", "FAILURE"}
    /\ job' = [job EXCEPT ![j].state = "REVOKED",
                          ![j].result = "revoked",
                          ![j].expires = config.result_expires]
    /\ UNCHANGED <<pool, Others>>

\* line 172, at the worker: a revoked task that still waits is discarded, one
\* that executes is terminated; a task that has ended is not touched
worker_revoke(j) ==
    /\ revoked[j] > 0
    /\ job[j].state \in {"PENDING", "PROGRESS"}
    /\ job' = [job EXCEPT ![j].state = "REVOKED",
                          ![j].result = "revoked",
                          ![j].expires = config.result_expires]
    /\ UNCHANGED <<pool, Others>>

----------------------------------------------------------------------------
(* get_job                                                                  *)

MaxPolls == 2           \* poll requests served

Versions == {"current", "2.1", "0.9"}    \* CURRENT_API_VERSION, "2.1", other

\* perform_fetch_task.AsyncResult(uid).state: an id the backend holds no
\* record of reads as PENDING
task_state(uid) ==
    IF job[uid].state = "NONE" \/ job[uid].purged THEN "PENDING" ELSE job[uid].state

\* lines 112-163
get_job(uid, version) ==
    /\ poll.count < MaxPolls
    /\ LET st == task_state(uid)
           code == IF version \in {"current", "2.1"} THEN 200 ELSE 400
       IN  poll' =
            IF st = "REVOKED"
            THEN \* response.update(task.info) with the exception raises
                 [count |-> poll.count + 1, uid |-> uid, status_code |-> 500,
                  state |-> "None", status |-> "query-exception", seen |-> 0]
            ELSE [count |-> poll.count + 1, uid |-> uid, status_code |-> code,
                  state |-> st,
                  status |-> IF st = "PENDING" THEN "pending"
                             ELSE IF st = "FAILURE" THEN "job-exception"
                             ELSE "info",
                  seen |-> IF st \in {"PROGRESS", "SUCCESS"}
                           THEN Len(job[uid].progress) ELSE 0]
    /\ UNCHANGED <<sizing, call, config, job, pool, revoked, cancel, cache, handler>>

----------------------------------------------------------------------------
(* request_data and the dedup cache.  Time is counted in units of five     *)
(* minutes, the margin that line 241 subtracts.                            *)

MaxHandlers == 2        \* concurrent request_data calls

Handlers == 1..MaxHandlers
CacheKeys == {"k1", "k2"}         \* values of data_request._key
\* a cache slot: the job id stored (0: nothing), the time it has left
\* and the ex it was stored with
NoEntry == [val |-> 0, left |-> 0, ex |-> 0]
\* a handler's locals; task is the id of the task that apply_async returned
\* (0: none), ex is int(expire_time.total_seconds())
IdleHandler == [pc |-> "idle", key |-> "", cached_result |-> 0, task |-> 0,
                request_uuid |-> 0, ex |-> 0, status_code |-> 0]

FiveMinutes == 1

\* a sign slip: five minutes after the result expires
expire_time_late(result_expires) == result_expires + FiveMinutes

\* line 241: expire_time = result_expires - timedelta(minutes=5)
expire_time(result_expires) == result_expires - FiveMinutes

\* what cache.get gives at this instant: the stored id, or 0 for None
cache_get(key) ==
    IF cache[key].val # 0 /\ cache[key].left > 0 THEN cache[key].val ELSE 0

DedupOthers == <<sizing, call, config, pool, revoked, cancel, poll>>

\* the handlers are interchangeable: they are numbered in the order in which
\* their requests arrive
Arrives(h) ==
    /\ handler[h].pc = "idle"
    /\ \A g \in Handlers : g < h => handler[g].pc # "idle"

\* lines 233-234: the request arrives and the store answers cache.get
request_get(h, key) ==
    /\ Arrives(h)
    /\ handler' = [handler EXCEPT ![h] =
            [IdleHandler EXCEPT !.pc = "got", !.key = key,
                                !.cached_result = cache_get(key)]]
    /\ UNCHANGED <<job, cache, DedupOthers>>

\* lines 234, 253-262: cache.get raises; the handler answers 500
request_get_error(h, key) ==
    /\ Arrives(h)
    /\ handler' = [handler EXCEPT ![h] =
            [IdleHandler EXCEPT !.pc = "done", !.key = key, !.status_code = 500]]
    /\ UNCHANGED <<job, cache, DedupOthers>>

\* lines 235-246, 247-252: the code that runs when cache.get has answered:
\* on a hit the stored id is returned, on a miss apply_async enqueues a new
\* task, the expiry is computed and cache.set is issued
request_apply(h) ==
    /\ handler[h].pc = "got"
    /\ IF handler[h].cached_result # 0
       THEN /\ handler' = [handler EXCEPT ![h].pc = "done",
                                          ![h].request_uuid = handler[h].cached_result,
                                          ![h].status_code = 202]
            /\ UNCHANGED job
       ELSE /\ \E j \in JobIds : job[j].state = "NONE"
            /\ LET j == CHOOSE i \in JobIds :
                            /\ job[i].state = "NONE"
                            /\ \A k \in JobIds : job[k].state = "NONE" => i <= k
               IN  /\ job' = [job EXCEPT ![j] =
                            [NoJob EXCEPT !.state = "PENDING", !.pc = "queued",
                                          !.key = handler[h].key]]
                   /\ handler' = [handler EXCEPT
                            ![h].pc = "set",
                            ![h].task = j,
                            ![h].request_uuid = j,
                            ![h].ex = expire_time(config.result_expires)]
    /\ UNCHANGED <<cache, DedupOthers>>

\* lines 242-252: the store executes SET key uuid EX ex, which it refuses for
\* ex <= 0; a refusal is an exception, answered 500 by lines 253-262
request_set(h) ==
    /\ handler[h].pc = "set"
    /\ LET ex == handler[h].ex
       IN  IF ex > 0
           THEN /\ cache' = [cache EXCEPT ![handler[h].key] =
                        [val |-> handler[h].request_uuid, left |-> ex, ex |-> ex]]
                /\ handler' = [handler EXCEPT ![h].pc = "done", ![h].status_code = 202]
           ELSE /\ handler' = [handler EXCEPT ![h].pc = "done", ![h].request_uuid = 0,
                                              ![h].status_code = 500]
                /\ UNCHANGED cache
    /\ UNCHANGED <<job, DedupOthers>>

\* lines 242, 253-262: cache.set raises (the store is unreachable)
request_set_error(h) ==
    /\ handler[h].pc = "set"
    /\ handler' = [handler EXCEPT ![h].pc = "done", ![h].request_uuid = 0,
                                  ![h].status_code = 500]
    /\ UNCHANGED <<job, cache, DedupOthers>>

\* In SpecDedup a job is followed through its record in the result backend
\* only: written first when fetch starts (line 271), last when fetch ends.
\* A write brings back a record that the backend had dropped.
task_start(j) ==
    /\ job[j].state = "PENDING"
    /\ job' = [job EXCEPT ![j] =
            [update_state(job[j], Msg("started", 0, <<>>)) EXCEPT !.pc = "resolve"]]
    /\ UNCHANGED <<cache, handler, DedupOthers>>

\* task_end that drops the dedup entry of a job that failed
task_end_invalidating(j, state) ==
    /\ job[j].state = "PROGRESS"
    /\ job' = [job EXCEPT ![j].state = state,
                          ![j].purged = FALSE,
                          ![j].pc = IF state = "SUCCESS" THEN "returned" ELSE @,
                          ![j].expires = config.result_expires]
    /\ cache' = [k \in CacheKeys |->
                    IF state = "FAILURE" /\ cache[k].val = j THEN NoEntry
                    ELSE cache[k]]
    /\ UNCHANGED <<handler, DedupOthers>>

\* fetch returns (line 424) or raises: the final record is written
task_end(j, state) ==
    /\ job[j].state = "PROGRESS"
    /\ job' = [job EXCEPT ![j].state = state,
                          ![j].purged = FALSE,
                          ![j].pc = IF state = "SUCCESS" THEN "returned" ELSE @,
                          ![j].expires = config.result_expires]
    /\ UNCHANGED <<cache, handler, DedupOthers>>

\* the backend drops a record result_expires after it was last written
purge(j) ==
    /\ job[j].state \in {"PROGRESS"} \cup Terminal
    /\ ~job[j].purged
    /\ job[j].expires = 0
    /\ job' = [job EXCEPT ![j].purged = TRUE]
    /\ UNCHANGED <<cache, handler, DedupOthers>>

Dec(n) == IF n > 0 THEN n - 1 ELSE 0

\* five minutes pass.  apply_async and the SET that follows it are issued
\* back to back, so no time passes between them.
tick ==
    /\ \A h \in Handlers : handler[h].pc # "set"
    /\ cache' = [k \in CacheKeys |-> [cache[k] EXCEPT !.left = Dec(@)]]
    /\ job' = [j \in JobIds |->
                IF job[j].state = "NONE" THEN job[j]
                ELSE [job[j] EXCEPT !.expires = Dec(@)]]
    /\ UNCHANGED <<sizing, call, config, pool, revoked, cancel, poll, handler>>

----------------------------------------------------------------------------
(* _merge_datasets and _interp_ds.  A dataset is a function from its       *)
(* native timestamps (whole seconds) to the values of its variable; a      *)
(* float is a fraction [n, d], and not-a-number is the fraction with d = 0.*)

MaxGrid == 2            \* start_dt, end_dt of a merge in 0..MaxGrid

GridTimes == 0..MaxGrid
NativeValues == {0, 2}
MergeIds == {"a", "b"}
NaN == [n |-> 0, d |-> 0]
IsNaN(v) == v.d = 0

\* what .sel(time=(start_dt, end_dt)) leaves of a dataset that has samples
\* in the window
Datasets(start_dt, end_dt) ==
    UNION {[T -> NativeValues] : T \in (SUBSET (start_dt..end_dt)) \ {{}}}

\* ds.interp(time=...) at one grid time, method 'linear' (the default):
\* the sample itself, the line through the two neighbouring samples, or
\* not-a-number outside the native span
interp_at(ds, t) ==
    IF t \in DOMAIN ds THEN Frac(ds[t], 1)
    ELSE LET below == {u \in DOMAIN ds : u < t}
             above == {u \in DOMAIN ds : u > t}
         IN  IF below = {} \/ above = {} THEN NaN
             ELSE LET lo == CHOOSE u \in below : \A w \in below : w <= u
                      hi == CHOOSE u \in above : \A w \in above : w >= u
                  IN  Frac(ds[lo] * (hi - t) + ds[hi] * (t - lo), hi - lo)

\* ds.interp(time=new_time)
interp(ds, grid) == [i \in DOMAIN grid |-> interp_at(ds, grid[i])]

Abs(x) == IF x < 0 THEN 0 - x ELSE x

\* .interpolate_na(dim='time', method='nearest', fill_value="extrapolate"):
\* a series with no gap, or with at most one value that is a number, is
\* returned as it is; otherwise every gap takes the nearest number
interpolate_na(y) ==
    LET valid == {i \in DOMAIN y : ~IsNaN(y[i])}
        n_nans == Len(y) - Cardinality(valid)
        nearest(i) == CHOOSE k \in valid :
                        \A m \in valid :
                            \/ Abs(k - i) < Abs(m - i)
                            \/ Abs(k - i) = Abs(m - i) /\ k <= m
    IN  IF n_nans = 0 \/ n_nans >= Len(y) - 1 THEN y
        ELSE [i \in DOMAIN y |-> IF i \in valid THEN y[i] ELSE y[nearest(i)]]

\* lines 146-151
_interp_ds(ds, grid) == interpolate_na(interp(ds, grid))

\* lines 37-57: the grid, each dataset on the grid, and their merge
_merge_datasets(data_list, start_dt, end_dt) ==
    LET grid == new_time(start_dt, end_dt)
    IN  [time |-> grid,
         data_vars |-> [k \in DOMAIN data_list |-> _interp_ds(data_list[k], grid)]]

NoMerged == [time |-> <<>>, data_vars |-> <<>>]

MergeInputs ==
    UNION {
        {[pc |-> "call", fn |-> "_merge_datasets", start_dt |-> s, end_dt |-> e,
          data_list |-> dl, raised |-> FALSE, merged |-> NoMerged] :
            dl \in [MergeIds -> Datasets(s, e)]}
        : s \in GridTimes, e \in GridTimes}

\* The interpolation of a dataset with a single sample is left to scipy's
\* interp1d, and differs between its releases: it refuses fewer than two
\* points, or it interpolates with an undefined slope and gives no number
\* at all, or it gives the sample at the sample's own time.  The model
\* takes all three.
SinglePoint(c) == \E k \in MergeIds : Cardinality(DOMAIN c.data_list[k]) < 2

\* _merge_datasets where a single-sample dataset yields no number
_merge_datasets_undefined_slope(data_list, start_dt, end_dt) ==
    LET grid == new_time(start_dt, end_dt)
    IN  [time |-> grid,
         data_vars |-> [k \in DOMAIN data_list |->
                IF Cardinality(DOMAIN data_list[k]) < 2
                THEN [i \in DOMAIN grid |-> NaN]
                ELSE _interp_ds(data_list[k], grid)]]

CallOthers == <<sizing, config, job, pool, revoked, cancel, poll, cache, handler>>

call_merge_datasets ==
    /\ call.pc = "call"
    /\ call.fn = "_merge_datasets"
    /\ call' = [call EXCEPT
            !.pc = "done",
            !.merged = _merge_datasets(call.data_list, call.start_dt, call.end_dt)]
    /\ UNCHANGED CallOthers

call_merge_datasets_undefined_slope ==
    /\ call.pc = "call"
    /\ call.fn = "_merge_datasets"
    /\ SinglePoint(call)
    /\ call' = [call EXCEPT
            !.pc = "done",
            !.merged = _merge_datasets_undefined_slope(call.data_list,
                                                call.start_dt, call.end_dt)]
    /\ UNCHANGED CallOthers

call_merge_datasets_raise ==
    /\ call.pc = "call"
    /\ call.fn = "_merge_datasets"
    /\ SinglePoint(call)
    /\ call' = [call EXCEPT !.pc = "done", !.raised = TRUE]
    /\ UNCHANGED CallOthers

----------------------------------------------------------------------------
(* _nan_to_nulls.  An element of a column is a record: a finite number     *)
(* ("num"), not-a-number ("nan"), an infinity ("inf", val its sign), the   *)
(* largest finite float ("max", val its sign) or None.                     *)

MaxValues == 3          \* length of a column

Num(v) == [kind |-> "num", val |-> v]
Elements ==
    {Num(-999999), Num(0), Num(5), [kind |-> "nan", val |-> 0],
     [kind |-> "inf", val |-> 1], [kind |-> "inf", val |-> -1]}
Columns == UNION {[1..n -> Elements] : n \in 0..MaxValues}

\* np.nan_to_num(values, nan=...): not-a-number becomes the given number,
\* an infinity the largest finite float of its sign
nan_to_num(values, nan) ==
    [i \in DOMAIN values |->
        IF values[i].kind = "nan" THEN Num(nan)
        ELSE IF values[i].kind = "inf" THEN [kind |-> "max", val |-> values[i].val]
        ELSE values[i]]

\* np.where(arr == x, None, arr)
where_equal_none(arr, x) ==
    [i \in DOMAIN arr |->
        IF arr[i].kind = "num" /\ arr[i].val = x THEN [kind |-> "None", val |-> 0]
        ELSE arr[i]]

\* lines 23-26
_nan_to_nulls(values) == where_equal_none(nan_to_num(values, -999999), -999999)

NullsInputs ==
    {[pc |-> "call", fn |-> "_nan_to_nulls", values |-> v, result |-> <<>>] :
        v \in Columns}

call_nan_to_nulls ==
    /\ call.pc = "call"
    /\ call.fn = "_nan_to_nulls"
    /\ call' = [call EXCEPT !.pc = "done", !.result = _nan_to_nulls(call.values)]
    /\ UNCHANGED CallOthers

----------------------------------------------------------------------------
(* _plot_merged_dataset and the result fetch builds from it.  A column     *)
(* name is a tuple: <<v>> for the variable v, <<x, y, c>> for the column   *)
(* "x_y c" of a rasterized plot.  A column's content is abstracted to the  *)
(* variable it comes from and how it was obtained.                         *)

MaxOver == 4            \* sample counts within MaxOver of the threshold

default_shade_threshold == 500000
XChoices == {"time", "a", "b"}
YChoices == {"a", "b"}
ZChoices == {"", "c"}
AxisParams == [x : XChoices, y : YChoices, z : ZChoices]
SampleCounts ==
    {n \in (default_shade_threshold - MaxOver)..(default_shade_threshold + MaxOver) :
        n >= 1}

Col(of, how) == [of |-> of, how |-> how]
EmptyCol == Col("", "empty")                \* [] and np.array([])
NoColumn == <<>>                            \* color_column = None

\* dict.get(key, default)
dict_get(dct, key, default) == IF key \in DOMAIN dct THEN dct[key] ELSE default

\* lines 75-129, for the rasterize of line 73.  aggregated and aggregator
\* are what the hvplot call is given (rasterize=, aggregator=); the rest is
\* what is returned.
plot_and_parse(rasterize, axis_params) ==
    LET plot_params == [x |-> axis_params.x, y |-> axis_params.y,
                        color |-> axis_params.z]
        xy == {<<plot_params.x>>, <<plot_params.y>>}
        color_column ==
            IF plot_params.color # ""
            THEN <<plot_params.x, plot_params.y, plot_params.color>>
            ELSE IF rasterize
            THEN <<plot_params.x, plot_params.y, plot_params.y>>
            ELSE NoColumn
        column_filter ==
            IF plot_params.color # "" THEN xy \cup {<<plot_params.color>>}
            ELSE IF rasterize THEN xy \cup {color_column}
            ELSE xy
        aggregated == IF plot_params.color # "" THEN rasterize
                      ELSE IF rasterize THEN TRUE ELSE FALSE
        aggregator == IF plot_params.color = "" /\ rasterize THEN "mean" ELSE ""
        \* plot[()].dframe(): bins and the aggregate of a rasterized plot,
        \* or the points
        df == IF aggregated
              THEN [k \in xy \cup {color_column} |->
                        IF k = color_column
                        THEN Col(k[3], IF aggregator = "mean" THEN "mean"
                                       ELSE "aggregate")
                        ELSE Col(k[1], "bins")]
              ELSE [k \in xy \cup (IF plot_params.color # ""
                                   THEN {<<plot_params.color>>} ELSE {}) |->
                        Col(k[1], "points")]
        renamed == [k \in (DOMAIN df \ {color_column})
                            \cup (IF color_column \in DOMAIN df
                                  THEN {<<plot_params.color>>} ELSE {}) |->
                        IF k = <<plot_params.color>> /\ color_column \in DOMAIN df
                        THEN df[color_column] ELSE df[k]]
        final_df == IF plot_params.color # "" THEN renamed
                    ELSE [k \in column_filter |-> df[k]]
    IN  [final_dct |-> final_df, rasterize |-> rasterize,
         aggregated |-> aggregated, aggregator |-> aggregator,
         color_column |-> color_column]

\* _plot_merged_dataset with the threshold itself counted as above it
_plot_merged_dataset_inclusive(len_time, axis_params, shade_threshold) ==
    plot_and_parse(len_time >= shade_threshold, axis_params)

\* lines 60-129
_plot_merged_dataset(len_time, axis_params, shade_threshold) ==
    plot_and_parse(len_time > shade_threshold, axis_params)

\* the third column without the shaded case
result_z_axis_only(final_dct, axis_params, shaded, color_column) ==
    IF axis_params.z # "" THEN dict_get(final_dct, <<axis_params.z>>, EmptyCol)
    ELSE EmptyCol

\* lines 400-404
result_z(final_dct, axis_params, shaded, color_column) ==
    IF axis_params.z # "" THEN dict_get(final_dct, <<axis_params.z>>, EmptyCol)
    ELSE IF shaded THEN dict_get(final_dct, color_column, EmptyCol)
    ELSE EmptyCol

\* lines 395-414: the result of a job whose merged dataset has samples
fetch_result(n_samples, axis_params) ==
    LET p == _plot_merged_dataset(n_samples, axis_params, default_shade_threshold)
    IN  [x |-> dict_get(p.final_dct, <<axis_params.x>>, EmptyCol),
         y |-> dict_get(p.final_dct, <<axis_params.y>>, EmptyCol),
         z |-> result_z(p.final_dct, axis_params, p.rasterize, p.color_column),
         count |-> n_samples,
         shaded |-> p.rasterize,
         aggregated |-> p.aggregated,
         aggregator |-> p.aggregator,
         color_column |-> p.color_column]

NoResult == [x |-> EmptyCol, y |-> EmptyCol, z |-> EmptyCol, count |-> 0,
             shaded |-> FALSE, aggregated |-> FALSE, aggregator |-> "",
             color_column |-> NoColumn]

RenderInputs ==
    {[pc |-> "call", fn |-> "_plot_merged_dataset", len_time |-> n,
      axis_params |-> a, result |-> NoResult] :
        n \in SampleCounts, a \in AxisParams}

call_plot_merged_dataset ==
    /\ call.pc = "call"
    /\ call.fn = "_plot_merged_dataset"
    /\ call' = [call EXCEPT !.pc = "done",
                            !.result = fetch_result(call.len_time, call.axis_params)]
    /\ UNCHANGED CallOthers

----------------------------------------------------------------------------
(* Spec: one accepted job, pending in the queue, executes fetch.           *)

NoCancel == [count |-> 0, uid |-> 0, signal |-> "", status_code |-> 0]
NoPoll == [count |-> 0, uid |-> 0, status_code |-> 0, state |-> "",
           status |-> "", seen |-> 0]

FetchInit ==
    /\ sizing = SizingIdle
    /\ call = NoCall
    /\ \E t \in ThresholdChoices :
            config = [data_threshold |-> t, result_expires |-> 2]
    /\ \E r \in FetchRequests :
            job = [j \in JobIds |->
                    IF j = 1 THEN [NoJob EXCEPT !.state = "PENDING",
                                                !.pc = "queued", !.request = r]
                    ELSE NoJob]
    /\ pool = [j \in JobIds |-> NoPool]
    /\ revoked = [j \in JobIds |-> 0]
    /\ cancel = NoCancel
    /\ poll = NoPoll
    /\ cache = [k \in CacheKeys |-> NoEntry]
    /\ handler = [h \in Handlers |-> IdleHandler]

Init == FetchInit

Next ==
    \/ \E j \in JobIds : FetchStep(j)
    \/ \E j \in JobIds : worker_revoke(j)
    \/ \E uid \in Uids, signal \in Signals : cancel_job(uid, signal)

Spec == Init /\ [][Next]_vars

\* SpecPoll: the same job, observed through get_job
PollNext ==
    \/ \E j \in JobIds : FetchStep(j)
    \/ \E uid \in Uids, version \in Versions : get_job(uid, version)

SpecPoll == Init /\ [][PollNext]_vars

DedupInit ==
    /\ sizing = SizingIdle
    /\ call = NoCall
    /\ \E r \in RetentionChoices :
            config = [data_threshold |-> [kind |-> "int", val |-> default_data_threshold],
                      result_expires |-> r]
    /\ job = [j \in JobIds |-> NoJob]
    /\ pool = [j \in JobIds |-> NoPool]
    /\ revoked = [j \in JobIds |-> 0]
    /\ cancel = NoCancel
    /\ poll = NoPoll
    /\ cache = [k \in CacheKeys |-> NoEntry]
    /\ handler = [h \in Handlers |-> IdleHandler]

DedupNext ==
    \/ \E h \in Handlers, key \in CacheKeys : request_get(h, key)
    \/ \E h \in Handlers, key \in CacheKeys : request_get_error(h, key)
    \/ \E h \in Handlers : request_apply(h)
    \/ \E h \in Handlers : request_set(h)
    \/ \E h \in Handlers : request_set_error(h)
    \/ \E j \in JobIds : task_start(j)
    \/ \E j \in JobIds, state \in {"SUCCESS", "FAILURE"} : task_end(j, state)
    \/ \E j \in JobIds : purge(j)
    \/ tick

SpecDedup == DedupInit /\ [][DedupNext]_vars

\* the service at rest, for the specifications of single functions
ServiceIdle ==
    /\ sizing = SizingIdle
    /\ config = [data_threshold |-> [kind |-> "int", val |-> default_data_threshold],
                 result_expires |-> 2]
    /\ job = [j \in JobIds |-> NoJob]
    /\ pool = [j \in JobIds |-> NoPool]
    /\ revoked = [j \in JobIds |-> 0]
    /\ cancel = NoCancel
    /\ poll = NoPoll
    /\ cache = [k \in CacheKeys |-> NoEntry]
    /\ handler = [h \in Handlers |-> IdleHandler]

\* SpecProtocol: one accepted job followed through its record only, with
\* cancel_job, the worker's revocation and get_job served around it
ProtocolInit ==
    /\ sizing = SizingIdle
    /\ call = NoCall
    /\ config = [data_threshold |-> [kind |-> "int", val |-> default_data_threshold],
                 result_expires |-> 2]
    /\ job = [j \in JobIds |->
                IF j = 1 THEN [NoJob EXCEPT !.state = "PENDING", !.pc = "queued"]
                ELSE NoJob]
    /\ pool = [j \in JobIds |-> NoPool]
    /\ revoked = [j \in JobIds |-> 0]
    /\ cancel = NoCancel
    /\ poll = NoPoll
    /\ cache = [k \in CacheKeys |-> NoEntry]
    /\ handler = [h \in Handlers |-> IdleHandler]

ProtocolNext ==
    \/ \E j \in JobIds : task_start(j)
    \/ \E j \in JobIds, state \in {"SUCCESS", "FAILURE"} : task_end(j, state)
    \/ \E j \in JobIds : worker_revoke(j)
    \/ \E uid \in Uids, signal \in Signals : cancel_job(uid, signal)
    \/ \E uid \in Uids, version \in Versions : get_job(uid, version)

SpecProtocol == ProtocolInit /\ [][ProtocolNext]_vars

\* SpecMerge: _merge_datasets applied to every bounded pair of datasets
MergeInit == call \in MergeInputs /\ ServiceIdle

MergeNext ==
    \/ call_merge_datasets
    \/ call_merge_datasets_undefined_slope
    \/ call_merge_datasets_raise

SpecMerge == MergeInit /\ [][MergeNext]_vars

\* SpecNulls: _nan_to_nulls applied to every bounded column
NullsInit == call \in NullsInputs /\ ServiceIdle

NullsNext == call_nan_to_nulls

SpecNulls == NullsInit /\ [][NullsNext]_vars

\* SpecRender: the rendering of a merged dataset and the result built from
\* it, for sample counts around the shading threshold
RenderInit == call \in RenderInputs /\ ServiceIdle

RenderNext == call_plot_merged_dataset

SpecRender == RenderInit /\ [][RenderNext]_vars

\* SpecExpiry: submissions of one fingerprint, with every operation that
\* acts on a job around them: the job's own progress, cancel_job, the
\* revocation, get_job
\* the retention of ServiceIdle lets request_data store its entries
ExpiryInit == call = NoCall /\ ServiceIdle

ExpiryNext ==
    \/ \E h \in Handlers : request_get(h, "k1")
    \/ \E h \in Handlers : request_apply(h)
    \/ \E h \in Handlers : request_set(h)
    \/ \E j \in JobIds : task_start(j)
    \/ \E j \in JobIds, state \in {"SUCCESS", "FAILURE"} : task_end(j, state)
    \/ \E j \in JobIds : worker_revoke(j)
    \/ cancel_job(1, "SIGTERM")
    \/ get_job(1, "current")
    \/ tick

SpecExpiry == ExpiryInit /\ [][ExpiryNext]_vars

\* SpecRetention: one accepted job followed through its record while time
\* passes and the backend drops what has expired, observed through get_job
RetentionInit == ProtocolInit

RetentionNext ==
    \/ \E j \in JobIds : task_start(j)
    \/ \E j \in JobIds, state \in {"SUCCESS", "FAILURE"} : task_end(j, state)
    \/ \E j \in JobIds : purge(j)
    \/ \E uid \in Uids, version \in Versions : get_job(uid, version)
    \/ tick

SpecRetention == RetentionInit /\ [][RetentionNext]_vars

SizingInit ==
    /\ sizing \in SizingInputs
    /\ call = NoCall
    /\ config = [data_threshold |-> [kind |-> "int", val |-> default_data_threshold],
                 result_expires |-> 2]
    /\ job = [j \in JobIds |-> NoJob]
    /\ pool = [j \in JobIds |-> NoPool]
    /\ revoked = [j \in JobIds |-> 0]
    /\ cancel = NoCancel
    /\ poll = NoPoll
    /\ cache = [k \in CacheKeys |-> NoEntry]
    /\ handler = [h \in Handlers |-> IdleHandler]

SizingNext == CallDetermineWorkers

SpecSizing == SizingInit /\ [][SizingNext]_vars

----------------------------------------------------------------------------
(* Properties of fetch, cancel_job and get_job (Spec, SpecPoll).           *)

HasMsg(j, kind) == \E i \in DOMAIN job[j].progress : job[j].progress[i].kind = kind
Requested(j) == Ids(job[j].request.request_params)
NoneIds(j) == {d \in Requested(j) : job[j].request.data[d] = -1}
EmptyIds(j) == {d \in Requested(j) : job[j].request.data[d] = 0}
Validated(j) == HasMsg(j, "no_data") \/ HasMsg(j, "empty_streams")
                    \/ HasMsg(j, "to_be_processed")
\* the threshold test of line 289 has been evaluated
SizeStepDone(j) ==
    \/ job[j].pc \notin {"none", "queued", "resolve", "size"}
    \/ job[j].pc = "size" /\ job[j].state = "FAILURE"

\* C2: every pool that fetch provisions is closed exactly once when the job
\* has ended by returning or by raising.
C2_PoolClosedOnEveryExit ==
    \A j \in JobIds :
        job[j].state \in {"SUCCESS", "FAILURE"} =>
            /\ pool[j].cluster \in {"None", "closed"}
            /\ pool[j].client \in {"None", "closed"}
            /\ pool[j].cluster = "closed" => pool[j].closes = 1

\* C3 as stated: the only state changes are PENDING -> PROGRESS and
\* PROGRESS -> one terminal state, and a terminal record never changes.
C3_StrictLifecycle ==
    [][\A j \in JobIds :
        /\ job'[j].state # job[j].state =>
            \/ job[j].state = "PENDING" /\ job'[j].state = "PROGRESS"
            \/ job[j].state = "PROGRESS" /\ job'[j].state \in Terminal
        /\ job[j].state \in Terminal => job'[j] = job[j]]_vars

\* C3 amended: as above, and a job revoked while it still waits goes from
\* PENDING to REVOKED without running; once terminal, no step (a progress
\* update, a delivered revocation) changes the state, the result or the log.
C3_Lifecycle ==
    [][\A j \in JobIds :
        /\ job'[j].state # job[j].state =>
            \/ job[j].state = "PENDING" /\ job'[j].state \in {"PROGRESS", "REVOKED"}
            \/ job[j].state = "PROGRESS" /\ job'[j].state \in Terminal
        /\ job[j].state \in Terminal =>
            /\ job'[j].state = job[j].state
            /\ job'[j].result = job[j].result
            /\ job'[j].progress = job[j].progress]_vars

\* C3 witness: a revocation is outstanding for a job that has succeeded.
C3_Witness ==
    /\ job[1].state = "SUCCESS"
    /\ revoked[1] > 0
    /\ cancel.uid = 1

\* C6 as stated: whenever validation ran on a request with a zero-sample
\* stream, a message names every such stream, merge and render are not
\* reached, and the job does not end with anything but a null result.
C6_EveryEmptyStreamNamed ==
    \A j \in JobIds :
        (Validated(j) /\ EmptyIds(j) # {}) =>
            /\ \E i \in DOMAIN job[j].progress :
                    /\ job[j].progress[i].kind = "empty_streams"
                    /\ Ids(job[j].progress[i].streams) = EmptyIds(j)
            /\ job[j].called = {}
            /\ job[j].pc \notin {"merge", "plot"}
            /\ job[j].state = "SUCCESS" => job[j].result = "None"

\* C6 amended: the same for the requests in which no dataset resolves to no
\* data at all; the validation itself raises nothing, so that such a job can
\* only fail in the teardown of its pool.
C6_EmptyStreamsNamed ==
    \A j \in JobIds :
        (Validated(j) /\ EmptyIds(j) # {} /\ NoneIds(j) = {}) =>
            /\ \E i \in DOMAIN job[j].progress :
                    /\ job[j].progress[i].kind = "empty_streams"
                    /\ Ids(job[j].progress[i].streams) = EmptyIds(j)
            /\ ~HasMsg(j, "no_data") /\ ~HasMsg(j, "to_be_processed")
            /\ job[j].called = {}
            /\ job[j].pc \in {"not_possible", "cleanup", "close_cluster", "return",
                              "returned"}
            /\ job[j].state = "SUCCESS" => job[j].result = "None"
            /\ job[j].state = "FAILURE" => job[j].pc \in {"cleanup", "close_cluster"}

\* C6 witness: a job with two zero-sample streams has returned null.
C6_Witness ==
    /\ job[1].state = "SUCCESS"
    /\ job[1].result = "None"
    /\ EmptyIds(1) = {"a", "b"}

\* C7: once the threshold test has been evaluated, a pool is requested
\* exactly when the total size exceeds the configured threshold; the plan
\* then has max_workers > 1 and adapt gets the plan's bounds.
C7_PoolExactlyAboveThreshold ==
    \A j \in JobIds :
        SizeStepDone(j) =>
            /\ HasMsg(j, "cluster_setup") <=>
                    FracLess(Frac(config.data_threshold.val, 1),
                             Frac(max_data_size(job[j].request), 1024))
            /\ HasMsg(j, "cluster_setup") => pool[j].dask_spec.max_workers > 1
            /\ pool[j].cluster \in {"adapting", "closed"} =>
                    /\ pool[j].minimum = pool[j].dask_spec.min_workers
                    /\ pool[j].maximum = pool[j].dask_spec.max_workers

\* C10: a cancel request with an unrecognized signal issues no revocation and
\* leaves every job and pool as it was; one with a recognized signal issues
\* exactly one revocation, for the id it names.
C10_CancelSignal ==
    [][cancel'.count = cancel.count + 1 =>
        IF cancel'.signal \in {"SIGTERM", "SIGKILL", "SIGUSR1"}
        THEN /\ revoked' = [revoked EXCEPT ![cancel'.uid] = @ + 1]
             /\ cancel'.status_code = 202
        ELSE /\ revoked' = revoked
             /\ job' = job
             /\ pool' = pool
             /\ cancel'.status_code # 202]_vars

\* C10 witness: an unrecognized signal was refused while the job was running.
C10_Witness ==
    /\ cancel.count = 1
    /\ cancel.signal = "SIGHUP"
    /\ cancel.uid = 1
    /\ cancel.status_code = 500
    /\ job[1].state = "PROGRESS"
    /\ revoked[1] = 0

----------------------------------------------------------------------------
(* The order of the progress messages (SpecPoll).                          *)

Rank(kind) ==
    CASE kind = "started" -> 0
      [] kind = "datasets_requested" -> 1
      [] kind = "cluster_setup" -> 2
      [] kind = "retrieving" -> 3
      [] kind = "validating" -> 4
      [] kind \in {"no_data", "empty_streams", "to_be_processed"} -> 5
      [] kind \in {"plot_not_possible", "merged_empty", "plotting"} -> 6

\* C4 as stated, its particular case: a data-size figure is reported before
\* fetch-in-progress, with or without a pool.
C4_SizeBeforeFetch ==
    \A j \in JobIds : \A i \in DOMAIN job[j].progress :
        job[j].progress[i].kind = "retrieving" =>
            \E k \in 1..(i - 1) :
                job[j].progress[k].kind \in {"cluster_setup", "to_be_processed"}

C4_Ordered(j) ==
    LET log == job[j].progress
    IN  /\ \A i \in DOMAIN log : \A k \in DOMAIN log :
                i < k => Rank(log[i].kind) < Rank(log[k].kind)
        /\ HasMsg(j, "cluster_setup") =>
                FracLess(Frac(config.data_threshold.val, 1),
                         Frac(max_data_size(job[j].request), 1024))
        /\ HasMsg(j, "plot_not_possible") => HasMsg(j, "empty_streams")
        /\ (HasMsg(j, "merged_empty") \/ HasMsg(j, "plotting")) =>
                HasMsg(j, "to_be_processed")
        /\ \A i \in DOMAIN log :
                log[i].kind = "to_be_processed" =>
                    \E k \in 1..(i - 1) : log[k].kind = "retrieving"

\* C4 amended: the messages of a job are emitted in the order started,
\* dataset count, pool status with the maximum data size (only when a pool is
\* requested), fetch-in-progress, validating, validation outcome (a failure
\* message, or the size of the data to be processed), merge/render outcome;
\* the size to be processed comes after fetch-in-progress; and successive
\* polls of a job see messages in emission order.
C4_ProgressOrder ==
    /\ [](\A j \in JobIds : C4_Ordered(j))
    /\ [][(/\ poll'.count = poll.count + 1
           /\ poll.count > 0
           /\ poll'.uid = poll.uid
           /\ poll.status = "info"
           /\ poll'.status = "info") => poll'.seen >= poll.seen]_vars
    /\ [][(poll'.count = poll.count + 1 /\ poll'.status = "info") =>
            poll'.seen = Len(job[poll'.uid].progress)]_vars

\* C4 witness: a job without a pool has returned a result and two polls in a
\* row saw different messages of it.
C4_Witness ==
    /\ job[1].state = "SUCCESS"
    /\ job[1].result = "dict"
    /\ ~HasMsg(1, "cluster_setup")
    /\ HasMsg(1, "plotting")
    /\ poll.count = 2
    /\ poll.uid = 1
    /\ poll.seen = Len(job[1].progress)

----------------------------------------------------------------------------
(* Properties of determine_workers (SpecSizing).                           *)

\* C8: for every size >= 0 and memory limit > 0 the plan has
\* min_workers >= 1, max_workers >= 1, min_workers <= max_workers,
\* max_workers = ceil(size / memory_limit), min_workers = ceil(max_workers / 10).
C8_ValidPlan ==
    sizing.pc = "done" =>
        LET size == sizing.max_mem_size
            want == CHOOSE w \in 0..(size.n + 1) :
                        /\ w * size.d * sizing.memory_limit >= size.n
                        /\ (w - 1) * size.d * sizing.memory_limit < size.n
        IN  /\ sizing.plan.min_workers >= 1
            /\ sizing.plan.max_workers >= 1
            /\ sizing.plan.min_workers <= sizing.plan.max_workers
            /\ sizing.plan.max_workers = want
            /\ 10 * sizing.plan.min_workers >= want
            /\ 10 * (sizing.plan.min_workers - 1) < want

\* C9 as stated: memory and CPU requests are both half the limit, a quarter
\* of it when the size is below one worker's memory limit.
C9_BothRequestsHalved ==
    sizing.pc = "done" =>
        LET small == sizing.max_mem_size.n < sizing.memory_limit * sizing.max_mem_size.d
            div == IF small THEN 4 ELSE 2
        IN  /\ sizing.plan.memory_request.n * div
                    = sizing.memory_limit * sizing.plan.memory_request.d
            /\ sizing.plan.cpu_request.n * div
                    = sizing.cpu_limit * sizing.plan.cpu_request.d

\* C9 amended: the CPU request is half the limit, a quarter of it when the
\* size is below one worker's memory limit; the memory request is half the
\* limit, and the total size itself when that is below the memory limit.
C9_Requests ==
    sizing.pc = "done" =>
        LET small == sizing.max_mem_size.n < sizing.memory_limit * sizing.max_mem_size.d
            div == IF small THEN 4 ELSE 2
        IN  /\ sizing.plan.cpu_request.n * div
                    = sizing.cpu_limit * sizing.plan.cpu_request.d
            /\ IF small
               THEN sizing.plan.memory_request.n * sizing.max_mem_size.d
                        = sizing.max_mem_size.n * sizing.plan.memory_request.d
               ELSE sizing.plan.memory_request.n * 2
                        = sizing.memory_limit * sizing.plan.memory_request.d

\* C9 witness: a plan for a size below the memory limit whose memory
\* request is not a quarter of the limit.
C9_Witness ==
    /\ sizing.pc = "done"
    /\ sizing.max_mem_size = Frac(3, 2)
    /\ sizing.memory_limit = 2
    /\ sizing.plan.memory_request = Frac(3, 2)
    /\ sizing.plan.cpu_request.n * 4 = sizing.cpu_limit * sizing.plan.cpu_request.d

----------------------------------------------------------------------------
(* Properties of request_data and the dedup cache (SpecDedup).             *)

\* job i is the job of its fingerprint: its creator is about to store it, or
\* the cache holds it unexpired
InFlight(i) == \E h \in Handlers : handler[h].pc = "set" /\ handler[h].request_uuid = i
Cached(i) == cache[job[i].key].val = i /\ cache[job[i].key].left > 0

\* C1: no job is created for a fingerprint while another job of that
\* fingerprint is being stored or is held unexpired by the cache: concurrent
\* submissions of one fingerprint create one job (and so return one id).
C1_OneJobPerFingerprint ==
    [][\A j \in JobIds :
        (job[j].state = "NONE" /\ job'[j].state = "PENDING") =>
            ~\E i \in JobIds \ {j} :
                /\ job[i].state # "NONE"
                /\ job[i].key = job'[j].key
                /\ InFlight(i) \/ Cached(i)]_vars

\* an unexpired entry names a job whose record the backend has not dropped
EntryResolves ==
    \A k \in CacheKeys :
        (cache[k].val # 0 /\ cache[k].left > 0) =>
            /\ job[cache[k].val].state # "NONE"
            /\ job[cache[k].val].key = k
            /\ ~job[cache[k].val].purged

\* C5 as stated: an unexpired entry resolves, and the TTL request_data hands
\* to the cache is positive and shorter than the retention window, whatever
\* the retention.
C5_TtlPositiveAndShorter ==
    /\ EntryResolves
    /\ \A h \in Handlers :
            handler[h].pc = "set" =>
                /\ handler[h].ex > 0
                /\ handler[h].ex < config.result_expires

\* C5 amended: an unexpired entry resolves; the TTL handed to the cache is
\* shorter than the retention window, and it is positive, so that an entry
\* is stored, exactly when the retention exceeds five minutes.
C5_TtlShorter ==
    /\ EntryResolves
    /\ \A h \in Handlers :
            handler[h].pc = "set" =>
                /\ handler[h].ex < config.result_expires
                /\ handler[h].ex > 0 <=> config.result_expires > FiveMinutes
    /\ \A k \in CacheKeys :
            cache[k].val # 0 =>
                /\ cache[k].ex > 0
                /\ cache[k].ex < config.result_expires
                /\ cache[k].left <= cache[k].ex
                /\ config.result_expires > FiveMinutes

\* C5 witness: the cache holds an unexpired entry for a job that has ended.
C5_Witness ==
    \E k \in CacheKeys :
        /\ cache[k].val # 0
        /\ cache[k].left > 0
        /\ job[cache[k].val].state = "SUCCESS"

----------------------------------------------------------------------------
(* Properties of the two protocol errors (SpecProtocol).                   *)

ClientError == 400..499
UnsupportedVersions == Versions \ {"current", "2.1"}

\* C11: a cancel_job call with an unrecognized signal and a get_job call
\* with an unsupported version are both answered with a 4xx status, and
\* neither changes a job's record or issues a revocation.
C11_ProtocolErrorsAre4xx ==
    [][/\ \A uid \in Uids, signal \in Signals \ ValidSignals :
            cancel_job(uid, signal) =>
                /\ cancel'.status_code \in ClientError
                /\ UNCHANGED <<job, revoked>>
       /\ \A uid \in Uids, version \in UnsupportedVersions :
            get_job(uid, version) =>
                /\ poll'.status_code \in ClientError
                /\ UNCHANGED <<job, revoked>>]_vars

----------------------------------------------------------------------------
(* Properties of _merge_datasets (SpecMerge).                              *)

Merged == call.pc = "done" /\ call.fn = "_merge_datasets" /\ ~call.raised

\* C12: after a merge over [t0, t1] with t0 < t1 the time coordinate rises
\* by one second from point to point, starts at t0 and ends at t1, so it
\* has (t1 - t0) + 1 points.
C12_GridInclusive ==
    (Merged /\ call.start_dt < call.end_dt) =>
        LET time == call.merged.time
        IN  /\ Len(time) = (call.end_dt - call.start_dt) + 1
            /\ time[1] = call.start_dt
            /\ time[Len(time)] = call.end_dt
            /\ \A i \in 1..(Len(time) - 1) : time[i + 1] = time[i] + 1

\* the values of the samples of ds that are nearest to time t
NearestValues(ds, t) ==
    {ds[u] : u \in {w \in DOMAIN ds : \A x \in DOMAIN ds : Abs(w - t) <= Abs(x - t)}}

\* C13: after a merge, every variable has a number at every point of the
\* grid, and that number is the value of a native sample nearest to the
\* point.
C13_NearestEverywhere ==
    Merged =>
        \A k \in MergeIds : \A i \in DOMAIN call.merged.time :
            LET v == call.merged.data_vars[k][i]
            IN  /\ ~IsNaN(v)
                /\ \E x \in NearestValues(call.data_list[k], call.merged.time[i]) :
                        FracEq(v, Frac(x, 1))

----------------------------------------------------------------------------
(* Properties of _nan_to_nulls (SpecNulls).                                *)

\* C14: _nan_to_nulls keeps the length of a column, puts None exactly where
\* the column holds not-a-number, and leaves every other element as it
\* was, -999999 and the infinities included.
C14_OnlyNanBecomesNull ==
    (call.pc = "done" /\ call.fn = "_nan_to_nulls") =>
        /\ Len(call.result) = Len(call.values)
        /\ \A i \in DOMAIN call.values :
                IF call.values[i].kind = "nan"
                THEN call.result[i].kind = "None"
                ELSE call.result[i] = call.values[i]

----------------------------------------------------------------------------
(* Properties of the rendering (SpecRender).                               *)

Rendered == call.pc = "done" /\ call.fn = "_plot_merged_dataset"

\* C15 as stated: the plot is aggregated, and shaded is reported true,
\* exactly when color is empty and the sample count exceeds the threshold;
\* with a color the plot is point-wise and shaded is false.
C15_ShadedOnlyWithoutColor ==
    Rendered =>
        LET want == call.axis_params.z = ""
                        /\ call.len_time > default_shade_threshold
        IN  /\ call.result.shaded = want
            /\ call.result.aggregated = want

\* C15 amended: the plot is aggregated, and shaded is reported true, exactly
\* when the sample count exceeds the threshold, with or without a color;
\* the aggregate is the mean of y without a color, and it is stored under
\* the color's name with one.
C15_ShadedAboveThreshold ==
    Rendered =>
        LET above == call.len_time > default_shade_threshold
            a == call.axis_params
        IN  /\ call.result.shaded = above
            /\ call.result.aggregated = above
            /\ (call.result.aggregator = "mean") = (above /\ a.z = "")
            /\ (above /\ a.z = "") => call.result.color_column = <<a.x, a.y, a.y>>
            /\ (~above /\ a.z = "") => call.result.color_column = NoColumn
            /\ a.z # "" => call.result.color_column = <<a.x, a.y, a.z>>

\* C15 witness: a plot with a color and more samples than the threshold
\* was rendered.
C15_Witness ==
    /\ Rendered
    /\ call.axis_params.z # ""
    /\ call.len_time > default_shade_threshold
    /\ call.result.shaded

\* C17: z holds the values of the z variable when the z axis is set, else
\* the aggregate column when the plot was shaded, else nothing.
C17_ThirdColumn ==
    Rendered =>
        LET a == call.axis_params
            r == call.result
        IN  IF a.z # "" THEN r.z.of = a.z /\ r.z.how \in {"points", "aggregate"}
            ELSE IF r.shaded THEN r.z = Col(a.y, "mean")
            ELSE r.z = EmptyCol

\* C17 witness: a shaded plot without a z axis gave the mean of y as z.
C17_Witness ==
    /\ Rendered
    /\ call.axis_params.z = ""
    /\ call.result.shaded
    /\ call.result.z.how = "mean"

----------------------------------------------------------------------------
(* Properties of the teardown in fetch (Spec).                             *)

TeardownSteps == {"cleanup", "close_cluster"}

\* C16: a failure of client.close() or cluster.close() does not fail the
\* job, which keeps the result it had computed, and a client that failed
\* to close does not keep the cluster from being closed.
C16_TeardownFailureSwallowed ==
    \A j \in JobIds :
        job[j].pc \in TeardownSteps =>
            /\ job[j].state # "FAILURE"
            /\ job[j].result # "exception"
            /\ (job[j].state \in Terminal \ {"REVOKED"})
                    => pool[j].cluster \in {"None", "closed"}

----------------------------------------------------------------------------
(* Properties of the dedup entry's lifetime (SpecExpiry).                  *)

Live(k) == cache[k].val # 0 /\ cache[k].left > 0

\* C18: a fingerprint that has an unexpired entry keeps one until its time
\* runs out; the steps of a job, of cancel_job and of get_job leave the
\* cache as it is; and a submission that reads an unexpired entry answers
\* 202 with the stored id and creates no job, whatever state that job is in.
C18_EntryOnlyExpires ==
    [][/\ \A k \in CacheKeys :
            Live(k) =>
                \/ Live(k)'
                \/ /\ cache'[k] = [cache[k] EXCEPT !.left = 0]
                   /\ cache[k].left = 1
                   /\ UNCHANGED <<handler, revoked, cancel, poll>>
                   /\ \A j \in JobIds : job'[j].state = job[j].state
       /\ (job' # job \/ revoked' # revoked \/ cancel' # cancel \/ poll' # poll)
            => \/ cache' = cache
               \/ \A k \in CacheKeys : cache'[k] = [cache[k] EXCEPT !.left = Dec(@)]
       /\ \A h \in Handlers :
            /\ (handler[h].pc = "idle" /\ handler'[h].pc = "got"
                    /\ Live(handler'[h].key))
                    => handler'[h].cached_result = cache[handler'[h].key].val
            /\ (handler[h].pc = "got" /\ handler[h].cached_result # 0
                    /\ handler'[h].pc # "got")
                    => /\ handler'[h].pc = "done"
                       /\ handler'[h].status_code = 202
                       /\ handler'[h].request_uuid = handler[h].cached_result
                       /\ job' = job]_vars

\* C18 witness: a submission was answered with the stored id of a job that
\* had failed or had been revoked.
C18_Witness ==
    \E h \in Handlers :
        /\ handler[h].pc = "done"
        /\ handler[h].cached_result # 0
        /\ handler[h].request_uuid = handler[h].cached_result
        /\ handler[h].status_code = 202
        /\ job[handler[h].cached_result].state \in {"FAILURE", "REVOKED"}

----------------------------------------------------------------------------
(* Properties of the pool's life within fetch (Spec).                      *)

\* how far a pool handle has come: not provisioned, provisioned, asked to
\* adapt (scaling), client attached (active), client closed, cluster closed
PoolRank(p) ==
    IF p.cluster = "None" THEN 0
    ELSE IF p.cluster = "created" THEN 1
    ELSE IF p.cluster = "closed" THEN 5
    ELSE IF p.client = "None" THEN 2
    ELSE IF p.client = "open" THEN 3
    ELSE 4

\* the steps at which fetch retrieves, validates, merges or renders data
DataSteps == {"retrieve", "select", "validate", "not_possible", "merge", "plot"}

PoolWellFormed(p) ==
    /\ p.client = "open" => p.cluster = "adapting"
    /\ p.client = "closed" => p.cluster \in {"adapting", "closed"}
    /\ p.cluster = "closed" => p.client = "closed" /\ p.closes = 1
    /\ p.cluster \in {"None", "created"} => p.client = "None"
    /\ p.cluster = "adapting" =>
            /\ p.minimum = p.dask_spec.min_workers
            /\ p.maximum = p.dask_spec.max_workers

\* C19: a pool is provisioned, then asked to adapt(min, max), then gets its
\* client, then the client is closed, then the cluster, one stage at a
\* time and never backwards; nothing changes a closed pool; and a job that
\* has a pool is at a data step only while the pool is active.
C19_PoolOrder ==
    /\ [](\A j \in JobIds :
            /\ PoolWellFormed(pool[j])
            /\ (job[j].pc \in DataSteps /\ pool[j].cluster # "None")
                    => PoolRank(pool[j]) = 3)
    /\ [][\A j \in JobIds :
            /\ PoolRank(pool'[j]) \in {PoolRank(pool[j]), PoolRank(pool[j]) + 1}
            /\ PoolRank(pool[j]) = 5 => pool'[j] = pool[j]]_vars

\* C19 witness: a job rendered its result with a pool that went through
\* every stage and is closed.
C19_Witness ==
    \E j \in JobIds :
        /\ job[j].state = "SUCCESS"
        /\ job[j].result = "dict"
        /\ "_merge_datasets" \in job[j].called
        /\ PoolRank(pool[j]) = 5
        /\ pool[j].client = "closed"

----------------------------------------------------------------------------
(* Properties of the call of _merge_datasets in fetch (Spec).              *)

\* the step of lines 374-386 has been taken
MergeStepDone(j) == HasMsg(j, "plotting") \/ HasMsg(j, "merged_empty")

\* C20: fetch calls _merge_datasets only for two or more datasets that all
\* resolved to data with at least one time sample; a single dataset goes
\* past the merge step without the call.
C20_MergeOnlyOfSeveralNonEmpty ==
    \A j \in JobIds :
        /\ "_merge_datasets" \in job[j].called =>
                /\ Cardinality(Requested(j)) >= 2
                /\ \A d \in Requested(j) : job[j].request.data[d] >= 1
        /\ MergeStepDone(j) =>
                ("_merge_datasets" \in job[j].called <=> Cardinality(Requested(j)) >= 2)
        /\ (NoneIds(j) # {} \/ EmptyIds(j) # {}) => ~MergeStepDone(j)

\* C20 witness: a job of two datasets, each with samples, has called
\* _merge_datasets and gone past the merge step.
C20_Witness ==
    \E j \in JobIds :
        /\ "_merge_datasets" \in job[j].called
        /\ Cardinality(Requested(j)) = 2
        /\ MergeStepDone(j)

----------------------------------------------------------------------------
(* Properties of the answers of request_data (SpecDedup).                  *)

\* the call of handler h has been answered
Answered(h) == handler[h].pc = "done"

\* C21: a call of request_data that is answered with a failure (500, status
\* failed, job_uuid null) has created no job, and a call that has created a
\* job answers 202 with the id of that job.
C21_FailureCreatesNoJob ==
    \A h \in Handlers :
        Answered(h) =>
            /\ handler[h].status_code = 500 => handler[h].task = 0
            /\ handler[h].task # 0 =>
                    /\ handler[h].status_code = 202
                    /\ handler[h].request_uuid = handler[h].task

----------------------------------------------------------------------------
(* Properties of what a poller observes over time (SpecRetention).         *)

\* a poll is answered in this step
Polled == poll'.count = poll.count + 1

\* the answer says that the job has not started
SaysPending(p) == p.status_code = 200 /\ p.state = "PENDING"

\* the answer reports a running or a terminal state
SaysStarted(p) == p.status_code = 200 /\ p.state \in {"PROGRESS"} \cup Terminal

\* C22: what get_job reports for one id never goes backwards: a poll that
\* follows a poll of the same id that reported a running or terminal state
\* does not report pending, also after the result was purged; and an id
\* that names no job is not reported as pending.
C22_PollNeverGoesBack ==
    [][Polled =>
        /\ (SaysStarted(poll) /\ poll'.uid = poll.uid) => ~SaysPending(poll')
        /\ SaysPending(poll') => job[poll'.uid].state # "NONE"]_vars

====
